---- MODULE Spec2Model ----
(***************************************************************************)
(* A model of the ChatGPT visibility tracker (src/app.py): the analysis    *)
(* run (run_analysis), the response segmenter and mention locator          *)
(* (analyze_response) and the heuristic brand extractor                    *)
(* (analyze_top_brands).                                                   *)
(*                                                                         *)
(* A Python str is a sequence of one-character strings.                    *)
(***************************************************************************)
EXTENDS Integers, Sequences, FiniteSets, TLC

(***************************************************************************)
(* Bounds of the model.                                                    *)
(***************************************************************************)
\* generate_prompts returns 15 templates; the model runs the first MaxPrompts.
MaxPrompts == 4
\* The bounded answers of the pure-function specification are the
\* concatenations of at most MaxTokens tokens.
MaxTokens == 4

(***************************************************************************)
(* Characters and the str methods the program uses.                        *)
(***************************************************************************)
Digits == {"0", "1", "2", "3", "4", "5", "6", "7", "8", "9"}

UpperSeq ==
    <<"A", "B", "C", "D", "E", "F", "G", "H", "I", "J", "K", "L", "M",
      "N", "O", "P", "Q", "R", "S", "T", "U", "V", "W", "X", "Y", "Z">>

LowerSeq ==
    <<"a", "b", "c", "d", "e", "f", "g", "h", "i", "j", "k", "l", "m",
      "n", "o", "p", "q", "r", "s", "t", "u", "v", "w", "x", "y", "z">>

Upper == {UpperSeq[k] : k \in DOMAIN UpperSeq}

\* The characters str.strip() removes and \s matches.
Whitespace == {" ", "\t", "\n", "\r", "\f"}

LowerChar(c) ==
    IF c \in Upper
    THEN LowerSeq[CHOOSE k \in DOMAIN UpperSeq : UpperSeq[k] = c]
    ELSE c

\* str.lower()
lower(s) == [k \in DOMAIN s |-> LowerChar(s[k])]

\* str.strip()
strip(s) ==
    LET keep == {k \in DOMAIN s : s[k] \notin Whitespace}
    IN  IF keep = {} THEN <<>>
        ELSE SubSeq(s, CHOOSE a \in keep : \A k \in keep : a <= k,
                       CHOOSE b \in keep : \A k \in keep : k <= b)

\* sub in s
Contains(sub, s) ==
    \E k \in 0..(Len(s) - Len(sub)) : SubSeq(s, k + 1, k + Len(sub)) = sub

\* The number of digits of s from index k on (the greedy \d+).
RECURSIVE DigitRun(_, _)
DigitRun(s, k) ==
    IF k <= Len(s) /\ s[k] \in Digits THEN 1 + DigitRun(s, k + 1) ELSE 0

CharAt(s, k) == IF k \in DOMAIN s THEN s[k] ELSE "<end>"

(***************************************************************************)
(* analyze_response: the segmenter and the mention locator.                *)
(***************************************************************************)
\* The length of the match of  \n\d+\.|\n-|\n\*|\n(?=[A-Z])  at index k of s,
\* 0 when the pattern does not match there.
BoundaryLen(s, k) ==
    IF CharAt(s, k) # "\n" THEN 0
    ELSE LET d == DigitRun(s, k + 1)
         IN  IF d >= 1 /\ CharAt(s, k + 1 + d) = "." THEN d + 2
             ELSE IF CharAt(s, k + 1) = "-" THEN 2
             ELSE IF CharAt(s, k + 1) = "*" THEN 2
             ELSE IF CharAt(s, k + 1) \in Upper THEN 1
             ELSE 0

\* re.split(pattern, s): the fragments between the matches, scanning from index
\* k with the current fragment starting at index start.
RECURSIVE SplitFrom(_, _, _)
SplitFrom(s, k, start) ==
    IF k > Len(s) THEN <<SubSeq(s, start, Len(s))>>
    ELSE LET m == BoundaryLen(s, k)
         IN  IF m > 0
             THEN <<SubSeq(s, start, k - 1)>> \o SplitFrom(s, k + m, k + m)
             ELSE SplitFrom(s, k + 1, start)

\* The text analyze_response splits: the lower-cased answer.
SplitInput(response_text) == lower(response_text)

\* [item.strip() for item in items if item.strip()]
RECURSIVE StripNonEmpty(_)
StripNonEmpty(frags) ==
    IF frags = <<>> THEN <<>>
    ELSE LET it == strip(Head(frags))
         IN  (IF it = <<>> THEN <<>> ELSE <<it>>) \o StripNonEmpty(Tail(frags))

Items(response_text) ==
    StripNonEmpty(SplitFrom(SplitInput(response_text), 1, 1))

\* The loop leaving at the first item that contains the brand.
RECURSIVE MatchingPositions_FirstOnly(_, _, _)
MatchingPositions_FirstOnly(items, brand_lower, idx) ==
    IF idx > Len(items) THEN <<>>
    ELSE IF Contains(brand_lower, items[idx]) THEN <<idx>>
    ELSE MatchingPositions_FirstOnly(items, brand_lower, idx + 1)

\* for idx, item in enumerate(items, 1): if brand_lower in item: ...
RECURSIVE MatchingPositions(_, _, _)
MatchingPositions(items, brand_lower, idx) ==
    IF idx > Len(items) THEN <<>>
    ELSE (IF Contains(brand_lower, items[idx]) THEN <<idx>> ELSE <<>>)
         \o MatchingPositions(items, brand_lower, idx + 1)

BrandResult(items, brand) ==
    LET positions == MatchingPositions(items, lower(brand), 1)
        mentions  == [k \in DOMAIN positions |-> items[positions[k]]]
    IN  [mentions |-> mentions,
         positions |-> positions,
         mention_count |-> Len(mentions)]

analyze_response(response_text, brand_name, competitor_brand) ==
    LET items == Items(response_text)
        given == {b \in {brand_name, competitor_brand} : b # <<>>}
    IN  [brand_results |-> [b \in given |-> BrandResult(items, b)],
         total_items |-> Len(items)]

(***************************************************************************)
(* analyze_top_brands: the heuristic brand extractor.                      *)
(***************************************************************************)
\* str.split('\n'): the lines of s from index k on, the current line starting
\* at index start.
RECURSIVE SplitLines(_, _, _)
SplitLines(s, k, start) ==
    IF k > Len(s) THEN <<SubSeq(s, start, Len(s))>>
    ELSE IF s[k] = "\n"
         THEN <<SubSeq(s, start, k - 1)>> \o SplitLines(s, k + 1, k + 1)
         ELSE SplitLines(s, k + 1, start)

\* The length of the match of  ^\d+\.  on line, 0 when there is none.
MarkerLen(line) ==
    LET d == DigitRun(line, 1)
    IN  IF d >= 1 /\ CharAt(line, d + 1) = "." THEN d + 1 ELSE 0

\* The number of whitespace characters of s from index k on (the greedy \s*).
RECURSIVE SpaceRun(_, _)
SpaceRun(s, k) ==
    IF k <= Len(s) /\ s[k] \in Whitespace THEN 1 + SpaceRun(s, k + 1) ELSE 0

\* The group ending at a hyphen or the end of the line only.
GroupEnds_HyphenOnly(line, k) ==
    \/ CharAt(line, k + SpaceRun(line, k)) = "-"
    \/ k = Len(line) + 1

\* Whether  (?:\s*-|\.|$)  matches at index k of line.
GroupEnds(line, k) ==
    \/ CharAt(line, k + SpaceRun(line, k)) = "-"
    \/ CharAt(line, k) = "."
    \/ k = Len(line) + 1

\* The end of the lazy group (.*?): the first index from k on where the rest
\* of the pattern matches.
RECURSIVE GroupEnd(_, _)
GroupEnd(line, k) ==
    IF GroupEnds(line, k) THEN k ELSE GroupEnd(line, k + 1)

\* match.group(1) of  ^\d+\.\s*(.*?)(?:\s*-|\.|$)  on a line the marker matches.
Group1(line) ==
    LET g == MarkerLen(line) + 1 + SpaceRun(line, MarkerLen(line) + 1)
    IN  SubSeq(line, g, GroupEnd(line, g) - 1)

\* The index of the first ")" of s from index k on, 0 when there is none.
RECURSIVE CloseParen(_, _)
CloseParen(s, k) ==
    IF k > Len(s) THEN 0
    ELSE IF s[k] = ")" THEN k
    ELSE CloseParen(s, k + 1)

\* The length of the match of  \s*\([^)]*\)  at index k of s, 0 when none.
ParenLen(s, k) ==
    LET open == k + SpaceRun(s, k)
    IN  IF CharAt(s, open) = "(" /\ CloseParen(s, open + 1) > 0
        THEN CloseParen(s, open + 1) - k + 1
        ELSE 0

\* re.sub(r'\s*\([^)]*\)', '', s), from index k on.
RECURSIVE RemoveParens(_, _)
RemoveParens(s, k) ==
    IF k > Len(s) THEN <<>>
    ELSE LET m == ParenLen(s, k)
         IN  IF m > 0 THEN RemoveParens(s, k + m)
             ELSE <<s[k]>> \o RemoveParens(s, k + 1)

\* 'Amazon Web Services'
P_AWS ==
    <<"A", "m", "a", "z", "o", "n", " ", "W", "e", "b", " ", "S", "e", "r",
      "v", "i", "c", "e", "s">>
\* 'Microsoft Azure'
P_Azure ==
    <<"M", "i", "c", "r", "o", "s", "o", "f", "t", " ", "A", "z", "u", "r",
      "e">>
\* 'Google Cloud Platform'
P_GCP ==
    <<"G", "o", "o", "g", "l", "e", " ", "C", "l", "o", "u", "d", " ", "P",
      "l", "a", "t", "f", "o", "r", "m">>

ProviderNames == <<P_AWS, P_Azure, P_GCP>>

\* Whether  ^(name)\s+  matches s under re.IGNORECASE.
ProviderPrefix(s, name) ==
    /\ Len(s) > Len(name)
    /\ lower(SubSeq(s, 1, Len(name))) = lower(name)
    /\ s[Len(name) + 1] \in Whitespace

\* re.sub(r'^(Amazon Web Services|Microsoft Azure|Google Cloud Platform)\s+',
\*        r'\1 ', s, flags=re.IGNORECASE)
NormalizeProvider(s) ==
    LET hit == {k \in DOMAIN ProviderNames : ProviderPrefix(s, ProviderNames[k])}
    IN  IF hit = {} THEN s
        ELSE LET n == Len(ProviderNames[CHOOSE k \in hit : \A j \in hit : k <= j])
             IN  SubSeq(s, 1, n) \o <<" ">>
                 \o SubSeq(s, n + 1 + SpaceRun(s, n + 1), Len(s))

\* The brand a line that matches the marker yields, before the length test.
LineBrand(line) ==
    strip(NormalizeProvider(RemoveParens(strip(Group1(line)), 1)))

\* The brands the lines of one answer add to brand_mentions, in line order.
RECURSIVE LineBrands(_)
LineBrands(lines) ==
    IF lines = <<>> THEN <<>>
    ELSE LET line == Head(lines)
         IN  (IF MarkerLen(line) > 0 /\ Len(LineBrand(line)) > 1
              THEN <<LineBrand(line)>> ELSE <<>>)
             \o LineBrands(Tail(lines))

\* brand_mentions[brand] = brand_mentions.get(brand, 0) + 1, the dict kept as
\* the sequence of its (brand, count) items in insertion order.
Increment(brand_mentions, brand) ==
    IF \E k \in DOMAIN brand_mentions : brand_mentions[k][1] = brand
    THEN [k \in DOMAIN brand_mentions |->
            IF brand_mentions[k][1] = brand
            THEN <<brand, brand_mentions[k][2] + 1>>
            ELSE brand_mentions[k]]
    ELSE Append(brand_mentions, <<brand, 1>>)

RECURSIVE IncrementAll(_, _)
IncrementAll(brand_mentions, brands) ==
    IF brands = <<>> THEN brand_mentions
    ELSE IncrementAll(Increment(brand_mentions, Head(brands)), Tail(brands))

\* The loop over results['detailed_results'].
RECURSIVE CountBrands(_, _)
CountBrands(brand_mentions, detailed_results) ==
    IF detailed_results = <<>> THEN brand_mentions
    ELSE CountBrands(
             IncrementAll(brand_mentions,
                          LineBrands(SplitLines(Head(detailed_results).response, 1, 1))),
             Tail(detailed_results))

\* The sort as an ascending sort reversed: equal counts end in last-seen order.
InsertDesc_TiesReversed(done, e) ==
    LET before == {k \in DOMAIN done : done[k][2] > e[2]}
        n == Cardinality(before)
    IN  SubSeq(done, 1, n) \o <<e>> \o SubSeq(done, n + 1, Len(done))

\* Where the stable descending sort puts entry e in the sorted sequence done:
\* after every entry whose count is at least e's.
InsertDesc(done, e) ==
    LET before == {k \in DOMAIN done : done[k][2] >= e[2]}
        n == Cardinality(before)
    IN  SubSeq(done, 1, n) \o <<e>> \o SubSeq(done, n + 1, Len(done))

\* sorted(brand_mentions.items(), key=lambda x: x[1], reverse=True)
RECURSIVE SortedDesc(_, _)
SortedDesc(done, todo) ==
    IF todo = <<>> THEN done
    ELSE SortedDesc(InsertDesc(done, Head(todo)), Tail(todo))

TopN == 3

analyze_top_brands(detailed_results) ==
    LET sorted_brands == SortedDesc(<<>>, CountBrands(<<>>, detailed_results))
    IN  [top_mentioned |->
            SubSeq(sorted_brands, 1,
                   IF Len(sorted_brands) < TopN THEN Len(sorted_brands) ELSE TopN),
         all_brands |-> sorted_brands]

(***************************************************************************)
(* run_analysis: the analysis run.                                         *)
(***************************************************************************)
VARIABLES
    brand_name,        \* run_analysis's and analyze_response's argument
    competitor_brand,  \* likewise; <<>> when no competitor is given
    pc,                \* "loop", "call", "done", "displayed"; "pure" outside a run
    i,                 \* the loop index of run_analysis (0-based)
    in_flight,         \* the number of provider calls issued and not yet returned
    calls,             \* the prompts sent to the provider, in call order
    raised,            \* the exceptions raised in the try body: [prompt, message]
    results,           \* run_analysis's results list
    brand_totals,      \* run_analysis's brand_totals dict
    errors,            \* the messages passed to st.error
    progress,          \* the numerator of the last progress_bar.progress call
    run_result,        \* the value run_analysis returns
    top_brands,        \* the value analyze_top_brands returns in display_results
    response_text,     \* the answer a pure function is applied to
    fn_pc,             \* "idle", "ready", "analyzed", "extracted"
    analysis,          \* the value analyze_response returns
    extracted          \* the value analyze_top_brands returns for one answer

vars ==
    <<brand_name, competitor_brand, pc, i, in_flight, calls, raised, results,
      brand_totals, errors, progress, run_result, top_brands, response_text,
      fn_pc, analysis, extracted>>

run_vars ==
    <<pc, i, in_flight, calls, raised, results, brand_totals, errors, progress,
      run_result, top_brands>>

fn_vars == <<response_text, fn_pc, analysis, extracted>>

\* generate_prompts(query): a prompt is the number of its template.
generate_prompts == [k \in 1..MaxPrompts |-> k]

\* brand_totals as run_analysis builds it before the loop.
InitialTotals(brand, competitor) ==
    LET keys == (IF brand # <<>> \/ competitor # <<>> THEN {brand} ELSE {})
                \cup (IF competitor # <<>> THEN {competitor} ELSE {})
    IN  [b \in keys |-> [mentions |-> 0, positions |-> <<>>]]

\* The aggregation with the new positions put before the old ones.
Aggregate_Prepend(totals, an) ==
    [b \in DOMAIN totals |->
        IF b \in DOMAIN an.brand_results
        THEN [mentions |-> totals[b].mentions + an.brand_results[b].mention_count,
              positions |-> an.brand_results[b].positions \o totals[b].positions]
        ELSE totals[b]]

\* The aggregation counting an answer once however often it mentions the brand.
Aggregate_OncePerAnswer(totals, an) ==
    [b \in DOMAIN totals |->
        IF b \in DOMAIN an.brand_results
        THEN [mentions |-> totals[b].mentions
                            + (IF an.brand_results[b].mention_count > 0 THEN 1 ELSE 0),
              positions |-> totals[b].positions \o an.brand_results[b].positions]
        ELSE totals[b]]

\* The aggregation of one analysis into brand_totals.
Aggregate(totals, an) ==
    [b \in DOMAIN totals |->
        IF b \in DOMAIN an.brand_results
        THEN [mentions |-> totals[b].mentions + an.brand_results[b].mention_count,
              positions |-> totals[b].positions \o an.brand_results[b].positions]
        ELSE totals[b]]

RECURSIVE Sum(_)
Sum(s) == IF s = <<>> THEN 0 ELSE Head(s) + Sum(Tail(s))

\* round(total / n, 2) in hundredths; a tie (exact in binary floating point when
\* it occurs for n < 40) goes to the even hundredth.
Round2(total, n) ==
    LET q == (100 * total) \div n
        r == (100 * total) % n
    IN  IF 2 * r > n \/ (2 * r = n /\ q % 2 = 1) THEN q + 1 ELSE q

\* avg_position = sum(positions) / len(positions) if positions else 0,
\* then round(avg_position, 2); in hundredths.
AveragePosition(positions) ==
    IF positions # <<>> THEN Round2(Sum(positions), Len(positions)) ELSE 0

Summary(totals) ==
    [b \in DOMAIN totals |->
        [total_mentions |-> totals[b].mentions,
         average_position |-> AveragePosition(totals[b].positions),
         times_ranked |-> Len(totals[b].positions),
         rankings |-> totals[b].positions]]

\* The provider's failures and the exception analyze_response raises on an
\* answer whose content is None.
ProviderErrors == {"rate limit exceeded"}
NoneError == "'NoneType' object has no attribute 'lower'"

(***************************************************************************)
(* The inputs: brand names and answers.                                    *)
(***************************************************************************)
\* 'Tesla'
T_Tesla ==
    <<"T", "e", "s", "l", "a">>
\* 'BMW'
T_BMW ==
    <<"B", "M", "W">>
\* 'acme'
T_acme ==
    <<"a", "c", "m", "e">>
\* 'Kia'
T_Kia ==
    <<"K", "i", "a">>
\* '1. A\n2. B\n3. C'
S_ABC ==
    <<"1", ".", " ", "A", "\n", "2", ".", " ", "B", "\n", "3", ".", " ", "C">>
\* '1. Acme Corp\n2. Foo\n3. Bar'
S_Acme ==
    <<"1", ".", " ", "A", "c", "m", "e", " ", "C", "o", "r", "p", "\n", "2",
      ".", " ", "F", "o", "o", "\n", "3", ".", " ", "B", "a", "r">>
\* 'Acme Corp\nFoo\nBar'
S_AcmePlain ==
    <<"A", "c", "m", "e", " ", "C", "o", "r", "p", "\n", "F", "o", "o", "\n",
      "B", "a", "r">>
\* '1. Tesla - electric vehicles'
S_TeslaLine ==
    <<"1", ".", " ", "T", "e", "s", "l", "a", " ", "-", " ", "e", "l", "e",
      "c", "t", "r", "i", "c", " ", "v", "e", "h", "i", "c", "l", "e", "s">>
\* '2. BMW (Germany)'
S_BMWLine ==
    <<"2", ".", " ", "B", "M", "W", " ", "(", "G", "e", "r", "m", "a", "n",
      "y", ")">>
\* 'Tesla - electric vehicles'
S_NoNumeral ==
    <<"T", "e", "s", "l", "a", " ", "-", " ", "e", "l", "e", "c", "t", "r",
      "i", "c", " ", "v", "e", "h", "i", "c", "l", "e", "s">>
\* 'Kia\n- BMW\n* Tesla'
S_Dash ==
    <<"K", "i", "a", "\n", "-", " ", "B", "M", "W", "\n", "*", " ", "T", "e",
      "s", "l", "a">>
\* '1. Tesla - electric vehicles\n2. BMW (Germany)'
A_TeslaBMW ==
    <<"1", ".", " ", "T", "e", "s", "l", "a", " ", "-", " ", "e", "l", "e",
      "c", "t", "r", "i", "c", " ", "v", "e", "h", "i", "c", "l", "e", "s",
      "\n", "2", ".", " ", "B", "M", "W", " ", "(", "G", "e", "r", "m", "a",
      "n", "y", ")">>
\* '1. BMW\n2. Tesla.\n3. Tesla Model 3'
A_BMWTesla ==
    <<"1", ".", " ", "B", "M", "W", "\n", "2", ".", " ", "T", "e", "s", "l",
      "a", ".", "\n", "3", ".", " ", "T", "e", "s", "l", "a", " ", "M", "o",
      "d", "e", "l", " ", "3">>
\* '1. Kia - cars\n2. BMW - cars'
A_KiaBMW ==
    <<"1", ".", " ", "K", "i", "a", " ", "-", " ", "c", "a", "r", "s", "\n",
      "2", ".", " ", "B", "M", "W", " ", "-", " ", "c", "a", "r", "s">>
\* 'Try Kia\n- BMW'
A_Prose ==
    <<"T", "r", "y", " ", "K", "i", "a", "\n", "-", " ", "B", "M", "W">>
\* 'Tesla\n- Kia\n* tesla 3'
S_Gap ==
    <<"T", "e", "s", "l", "a", "\n", "-", " ", "K", "i", "a", "\n", "*", " ",
      "t", "e", "s", "l", "a", " ", "3">>
\* '1. Kia (Korea) Motors'
S_KiaMotors ==
    <<"1", ".", " ", "K", "i", "a", " ", "(", "K", "o", "r", "e", "a", ")",
      " ", "M", "o", "t", "o", "r", "s">>
\* '3. Amazon Web Services  EC2 - compute'
S_AWS2 ==
    <<"3", ".", " ", "A", "m", "a", "z", "o", "n", " ", "W", "e", "b", " ",
      "S", "e", "r", "v", "i", "c", "e", "s", " ", " ", "E", "C", "2", " ",
      "-", " ", "c", "o", "m", "p", "u", "t", "e">>
\* 'Kia Motors'
T_KiaMotors ==
    <<"K", "i", "a", " ", "M", "o", "t", "o", "r", "s">>
\* 'Amazon Web Services EC2'
T_AWSEC2 ==
    <<"A", "m", "a", "z", "o", "n", " ", "W", "e", "b", " ", "S", "e", "r",
      "v", "i", "c", "e", "s", " ", "E", "C", "2">>
\* 'Tesla Model 3'
T_TeslaModel3 ==
    <<"T", "e", "s", "l", "a", " ", "M", "o", "d", "e", "l", " ", "3">>

\* The answers the provider returns in a run.
Answers == {A_TeslaBMW, A_BMWTesla, A_KiaBMW}

\* The (brand_name, competitor_brand) pairs of a run; main() starts a run only
\* with a brand name.
RunBrands == {<<T_Tesla, <<>>>>, <<T_Tesla, T_BMW>>, <<T_BMW, T_BMW>>}

NoAnalysis == [brand_results |-> <<>>, total_items |-> 0]
NoTopBrands == [top_mentioned |-> <<>>, all_brands |-> <<>>]
NoResult == [detailed_results |-> <<>>, summary |-> <<>>]

Init ==
    /\ \E bc \in RunBrands :
          /\ brand_name = bc[1]
          /\ competitor_brand = bc[2]
          /\ brand_totals = InitialTotals(bc[1], bc[2])
    /\ pc = "loop"
    /\ i = 0
    /\ in_flight = 0
    /\ calls = <<>>
    /\ raised = <<>>
    /\ results = <<>>
    /\ errors = <<>>
    /\ progress = 0
    /\ run_result = NoResult
    /\ top_brands = NoTopBrands
    /\ response_text = <<>>
    /\ fn_pc = "idle"
    /\ analysis = NoAnalysis
    /\ extracted = NoTopBrands

\* client.chat.completions.create(...) is called for prompts[i].
IssueCall ==
    /\ pc = "loop"
    /\ i < Len(generate_prompts)
    /\ pc' = "call"
    /\ in_flight' = in_flight + 1
    /\ calls' = Append(calls, generate_prompts[i + 1])
    /\ UNCHANGED <<brand_name, competitor_brand, i, raised, results, brand_totals,
                   errors, progress, run_result, top_brands, fn_vars>>

\* The rest of the try body after the provider returned text.
HandleAnswer(text) ==
    LET an == analyze_response(text, brand_name, competitor_brand)
    IN  /\ results' = Append(results, [prompt |-> generate_prompts[i + 1],
                                       response |-> text,
                                       analysis |-> an])
        /\ brand_totals' = Aggregate(brand_totals, an)
        /\ progress' = i + 1
        /\ i' = i + 1
        /\ pc' = "loop"
        /\ UNCHANGED <<raised, errors>>

\* The exception leaves run_analysis uncaught.
HandleException_Propagates(e) ==
    /\ raised' = Append(raised, [prompt |-> generate_prompts[i + 1], message |-> e])
    /\ pc' = "raised"
    /\ UNCHANGED <<i, errors, results, brand_totals, progress>>

\* The exception is swallowed without a report.
HandleException_Silent(e) ==
    /\ raised' = Append(raised, [prompt |-> generate_prompts[i + 1], message |-> e])
    /\ i' = i + 1
    /\ pc' = "loop"
    /\ UNCHANGED <<errors, results, brand_totals, progress>>

\* except Exception as e: st.error(...); the for loop goes on.
HandleException(e) ==
    /\ raised' = Append(raised, [prompt |-> generate_prompts[i + 1], message |-> e])
    /\ errors' = Append(errors, <<"Error in analysis: ", e>>)
    /\ i' = i + 1
    /\ pc' = "loop"
    /\ UNCHANGED <<results, brand_totals, progress>>

CallReturns ==
    /\ pc = "call"
    /\ in_flight' = in_flight - 1
    /\ \E text \in Answers : HandleAnswer(text)
    /\ UNCHANGED <<brand_name, competitor_brand, calls, run_result, top_brands,
                   fn_vars>>

CallRaises ==
    /\ pc = "call"
    /\ in_flight' = in_flight - 1
    /\ \E e \in ProviderErrors : HandleException(e)
    /\ UNCHANGED <<brand_name, competitor_brand, calls, run_result, top_brands,
                   fn_vars>>

\* response.choices[0].message.content is None: analyze_response raises.
CallReturnsNone ==
    /\ pc = "call"
    /\ in_flight' = in_flight - 1
    /\ HandleException(NoneError)
    /\ UNCHANGED <<brand_name, competitor_brand, calls, run_result, top_brands,
                   fn_vars>>

\* The loop is over: the summary is computed and the result returned.
ReturnResult ==
    /\ pc = "loop"
    /\ i = Len(generate_prompts)
    /\ run_result' = [detailed_results |-> results,
                      summary |-> Summary(brand_totals)]
    /\ pc' = "done"
    /\ UNCHANGED <<brand_name, competitor_brand, i, in_flight, calls, raised,
                   results, brand_totals, errors, progress, top_brands, fn_vars>>

\* display_results: top_brands = analyze_top_brands(results)
DisplayResults ==
    /\ pc = "done"
    /\ top_brands' = analyze_top_brands(run_result.detailed_results)
    /\ pc' = "displayed"
    /\ UNCHANGED <<brand_name, competitor_brand, i, in_flight, calls, raised,
                   results, brand_totals, errors, progress, run_result, fn_vars>>

Next ==
    \/ IssueCall
    \/ CallRaises
    \/ CallReturnsNone
    \/ CallReturns
    \/ ReturnResult
    \/ DisplayResults

Spec == Init /\ [][Next]_vars

\* The program runs on, and a call in flight ends (the client raises on a
\* request that times out).  CallRaises, CallReturnsNone and CallReturns are
\* enabled exactly while pc = "call" and each ends the call, so weak fairness
\* of one of them says what weak fairness of their disjunction says: the run
\* does not stay in a call forever.  It chooses no outcome.
FairSpec ==
    Spec /\ WF_vars(IssueCall) /\ WF_vars(CallRaises) /\ WF_vars(ReturnResult)

(***************************************************************************)
(* The pure functions applied to bounded inputs.                           *)
(***************************************************************************)
\* The pieces the bounded answers are made of.
Tokens ==
    {<<"1">>, <<".">>, <<"\n">>, <<" ">>, <<"-">>, <<"a">>, <<"A", "b">>,
     <<"(", "b", ")">>}

RECURSIVE Concat(_)
Concat(ts) == IF ts = <<>> THEN <<>> ELSE Head(ts) \o Concat(Tail(ts))

TokenTexts ==
    {Concat(ts) : ts \in UNION {[1..n -> Tokens] : n \in 0..MaxTokens}}

TokenBrands == {<<<<"a", "b">>, <<>>>>, <<<<"B">>, <<"a">>>>}

SampleTexts ==
    {S_ABC, S_Acme, S_AcmePlain, S_TeslaLine, S_BMWLine, S_NoNumeral, S_Dash,
     S_Gap, S_KiaMotors, S_AWS2, A_TeslaBMW, A_BMWTesla, A_KiaBMW, A_Prose}

SampleBrands == {<<T_acme, <<>>>>, <<T_Tesla, T_BMW>>}

PureInputs == (TokenTexts \X TokenBrands) \cup (SampleTexts \X SampleBrands)

PureInit ==
    /\ \E in \in PureInputs :
          /\ response_text = in[1]
          /\ brand_name = in[2][1]
          /\ competitor_brand = in[2][2]
    /\ fn_pc = "ready"
    /\ analysis = NoAnalysis
    /\ extracted = NoTopBrands
    /\ pc = "pure"
    /\ i = 0
    /\ in_flight = 0
    /\ calls = <<>>
    /\ raised = <<>>
    /\ results = <<>>
    /\ brand_totals = <<>>
    /\ errors = <<>>
    /\ progress = 0
    /\ run_result = NoResult
    /\ top_brands = NoTopBrands

\* analysis = analyze_response(response_text, brand_name, competitor_brand)
ApplyAnalyzeResponse ==
    /\ fn_pc = "ready"
    /\ analysis' = analyze_response(response_text, brand_name, competitor_brand)
    /\ fn_pc' = "analyzed"
    /\ UNCHANGED <<brand_name, competitor_brand, run_vars, response_text, extracted>>

\* analyze_top_brands on a run whose one result holds response_text
ApplyAnalyzeTopBrands ==
    /\ fn_pc = "analyzed"
    /\ extracted' = analyze_top_brands(<<[response |-> response_text]>>)
    /\ fn_pc' = "extracted"
    /\ UNCHANGED <<brand_name, competitor_brand, run_vars, response_text, analysis>>

PureNext ==
    \/ ApplyAnalyzeResponse
    \/ ApplyAnalyzeTopBrands

PureSpec == PureInit /\ [][PureNext]_vars

(***************************************************************************)
(* Properties of run_analysis.                                             *)
(***************************************************************************)
Finished == pc \in {"done", "displayed"}

\* C1: whichever provider calls fail, every prompt of generate_prompts is sent
\* to the provider exactly once, in the generator's order, with at most one
\* call in flight and no failed call repeated; every attempted prompt ends as
\* a result or as a caught exception, and the run returns its result.
C1_SequentialRun ==
    /\ [](/\ in_flight = (IF pc = "call" THEN 1 ELSE 0)
          /\ calls = SubSeq(generate_prompts, 1, Len(calls))
          /\ Len(calls) = i + in_flight
          /\ Len(results) + Len(raised) = i
          /\ Finished => /\ calls = generate_prompts
                         /\ run_result.detailed_results = results)
    /\ <>Finished

\* C1's case: a run in which every provider call failed has returned.
C1_AllCallsFailed ==
    /\ pc = "done"
    /\ Len(raised) = Len(generate_prompts)
    /\ \E k \in DOMAIN raised : raised[k].message \in ProviderErrors
    /\ calls = generate_prompts

C3_EmptyAverageIsNotZero ==
    Finished =>
        \A b \in DOMAIN run_result.summary :
            run_result.summary[b].rankings = <<>>
                => run_result.summary[b].average_position # 0

\* The positions of brand b in the entries of rs, concatenated in entry order.
RECURSIVE FoldPositions(_, _)
FoldPositions(rs, b) ==
    IF rs = <<>> THEN <<>>
    ELSE FoldPositions(SubSeq(rs, 1, Len(rs) - 1), b)
         \o (IF b \in DOMAIN rs[Len(rs)].analysis.brand_results
             THEN rs[Len(rs)].analysis.brand_results[b].positions
             ELSE <<>>)

\* The mention counts of brand b in the entries of rs, summed.
RECURSIVE FoldMentions(_, _)
FoldMentions(rs, b) ==
    IF rs = <<>> THEN 0
    ELSE FoldMentions(SubSeq(rs, 1, Len(rs) - 1), b)
         + (IF b \in DOMAIN rs[Len(rs)].analysis.brand_results
            THEN rs[Len(rs)].analysis.brand_results[b].mention_count
            ELSE 0)

\* C4: after every step each tracked brand's position list is the
\* concatenation, in prompt order, of its positions in the entries of
\* detailed_results, and its mention total the sum of their mention counts; a
\* step in which the call or the analysis fails changes neither the results
\* nor a brand total.
C4_TotalsAreAFold ==
    /\ [](/\ \A b \in DOMAIN brand_totals :
                /\ brand_totals[b].positions = FoldPositions(results, b)
                /\ brand_totals[b].mentions = FoldMentions(results, b)
          /\ \A k \in DOMAIN results :
                /\ results[k].analysis =
                      analyze_response(results[k].response, brand_name,
                                       competitor_brand)
                /\ \A j \in DOMAIN results : k < j =>
                      results[k].prompt < results[j].prompt)
    /\ [][Len(raised') > Len(raised) =>
            (results' = results /\ brand_totals' = brand_totals)]_vars

\* C4's case: a finished run with a failed prompt in which a brand's positions
\* come from more than one result.
C4_FoldOverSeveral ==
    /\ pc = "done"
    /\ Len(raised) >= 1
    /\ Len(results) >= 2
    /\ \E b \in DOMAIN brand_totals :
          /\ results[1].analysis.brand_results[b].positions # <<>>
          /\ results[2].analysis.brand_results[b].positions # <<>>
          /\ Len(brand_totals[b].positions)
                > Len(results[1].analysis.brand_results[b].positions)

\* C5 as stated: a brand's total_mentions is at most the number of prompts
\* that succeeded.
C5_MentionsAtMostSuccesses ==
    Finished =>
        \A b \in DOMAIN run_result.summary :
            run_result.summary[b].total_mentions
                <= Len(run_result.detailed_results)

\* The number of items of answer text that contain brand b.
ItemsWith(text, b) ==
    LET items == Items(text)
    IN  Cardinality({k \in DOMAIN items : Contains(lower(b), items[k])})

RECURSIVE SumItemsWith(_, _)
SumItemsWith(rs, b) ==
    IF rs = <<>> THEN 0
    ELSE ItemsWith(Head(rs).response, b) + SumItemsWith(Tail(rs), b)

RECURSIVE SumTotalItems(_)
SumTotalItems(rs) ==
    IF rs = <<>> THEN 0
    ELSE Head(rs).analysis.total_items + SumTotalItems(Tail(rs))

\* C5 as amended: a brand's total_mentions is the number of items of the
\* answers that succeeded which contain the brand (equal to times_ranked), so
\* at most the number of items of those answers and 0 when none succeeded.
C5_MentionsCountItems ==
    Finished =>
        \A b \in DOMAIN run_result.summary :
            /\ run_result.summary[b].total_mentions
                  = SumItemsWith(run_result.detailed_results, b)
            /\ run_result.summary[b].total_mentions
                  = run_result.summary[b].times_ranked
            /\ run_result.summary[b].total_mentions
                  <= SumTotalItems(run_result.detailed_results)

\* C5's case: a finished run with a failed prompt in which a brand has more
\* mentions than there are successful prompts.
C5_MoreMentionsThanSuccesses ==
    /\ pc = "done"
    /\ Len(raised) >= 1
    /\ Len(run_result.detailed_results) >= 1
    /\ \E b \in DOMAIN run_result.summary :
          run_result.summary[b].total_mentions > Len(run_result.detailed_results)

(***************************************************************************)
(* Properties of analyze_top_brands over a run.                            *)
(***************************************************************************)
\* The brands extracted from the answers of rs, in the order they are found.
RECURSIVE CandidateStream(_)
CandidateStream(rs) ==
    IF rs = <<>> THEN <<>>
    ELSE LineBrands(SplitLines(Head(rs).response, 1, 1))
         \o CandidateStream(Tail(rs))

Occurrences(stream, c) == Cardinality({k \in DOMAIN stream : stream[k] = c})

FirstSeen(stream, c) ==
    CHOOSE k \in DOMAIN stream :
        stream[k] = c /\ \A j \in DOMAIN stream : stream[j] = c => k <= j

\* C9: the table lists each extracted candidate once, with its count over all
\* recorded answers, by count descending and, for equal counts, in first-seen
\* order; top_mentioned is the first min(3, length) rows of the table.
C9_FrequencyTable ==
    pc = "displayed" =>
        LET t == top_brands.all_brands
            stream == CandidateStream(run_result.detailed_results)
        IN  /\ {t[k][1] : k \in DOMAIN t} = {stream[k] : k \in DOMAIN stream}
            /\ \A j, k \in DOMAIN t : j # k => t[j][1] # t[k][1]
            /\ \A k \in DOMAIN t : t[k][2] = Occurrences(stream, t[k][1])
            /\ \A j, k \in DOMAIN t : j < k =>
                  \/ t[j][2] > t[k][2]
                  \/ /\ t[j][2] = t[k][2]
                     /\ FirstSeen(stream, t[j][1]) < FirstSeen(stream, t[k][1])
            /\ top_brands.top_mentioned
                  = SubSeq(t, 1, IF Len(t) < 3 THEN Len(t) ELSE 3)

\* C9's case: a displayed table of more than three brands with a tie and with
\* a brand that was seen later ranked above one seen earlier.
C9_SortedWithTies ==
    /\ pc = "displayed"
    /\ Len(top_brands.all_brands) > 3
    /\ Len(top_brands.top_mentioned) = 3
    /\ LET t == top_brands.all_brands
           stream == CandidateStream(run_result.detailed_results)
       IN  /\ \E j \in DOMAIN t : j < Len(t) /\ t[j][2] = t[j + 1][2]
           /\ \E j, k \in DOMAIN t :
                 j < k /\ FirstSeen(stream, t[j][1]) > FirstSeen(stream, t[k][1])

(***************************************************************************)
(* Properties of analyze_response on one answer.                           *)
(***************************************************************************)
\* C6: no item of an answer still carries a leading "<digits>." marker, and
\* "1. A\n2. B\n3. C" yields the items "A", "B", "C".
C6_MarkersDiscarded ==
    fn_pc = "analyzed" =>
        /\ \A k \in DOMAIN Items(response_text) :
              MarkerLen(Items(response_text)[k]) = 0
        /\ response_text = S_ABC =>
              Items(response_text) = <<<<"A">>, <<"B">>, <<"C">>>>

\* C7: every item, and so the context recorded for every mention, is a
\* fragment of the raw answer with its characters unchanged.
C7_CasingPreserved ==
    fn_pc = "analyzed" =>
        /\ \A k \in DOMAIN Items(response_text) :
              Contains(Items(response_text)[k], response_text)
        /\ \A b \in DOMAIN analysis.brand_results :
              \A k \in DOMAIN analysis.brand_results[b].mentions :
                  Contains(analysis.brand_results[b].mentions[k], response_text)

\* C10: each recorded position is an ordinal p of an item, 1 <= p <=
\* total_items; positions increase strictly; the item at a recorded position
\* contains the brand, case-insensitively, and is the recorded mention; every
\* item that contains the brand has its ordinal recorded; mention_count is
\* the number of positions.
C10_PositionsAreItemOrdinals ==
    fn_pc \in {"analyzed", "extracted"} =>
        LET items == Items(response_text)
        IN  /\ analysis.total_items = Len(items)
            /\ DOMAIN analysis.brand_results
                  = {brand_name, competitor_brand} \ {<<>>}
            /\ \A b \in DOMAIN analysis.brand_results :
                  LET r == analysis.brand_results[b]
                  IN  /\ \A k \in DOMAIN r.positions :
                            /\ r.positions[k] \in 1..analysis.total_items
                            /\ Contains(lower(b), lower(items[r.positions[k]]))
                            /\ r.mentions[k] = items[r.positions[k]]
                      /\ \A j, k \in DOMAIN r.positions :
                            j < k => r.positions[j] < r.positions[k]
                      /\ \A p \in DOMAIN items :
                            Contains(lower(b), lower(items[p]))
                                => \E k \in DOMAIN r.positions : r.positions[k] = p
                      /\ r.mention_count = Len(r.positions)
                      /\ Len(r.mentions) = Len(r.positions)

\* C10's case: an answer of three items whose first and third mention the
\* brand.
C10_FirstAndThirdItem ==
    /\ fn_pc = "analyzed"
    /\ response_text = S_Gap
    /\ analysis.total_items = 3
    /\ analysis.brand_results[T_Tesla].positions = <<1, 3>>
    /\ analysis.brand_results[T_BMW].positions = <<>>

(***************************************************************************)
(* Properties of analyze_top_brands on one answer.                         *)
(***************************************************************************)
\* Whether line begins with a digit sequence followed by a period.
Qualifies(line) ==
    \E d \in 1..Len(line) :
        /\ \A k \in 1..d : line[k] \in Digits
        /\ CharAt(line, d + 1) = "."

\* The text of a qualifying line after its marker.
AfterMarker(line) ==
    LET p == CHOOSE k \in DOMAIN line :
                line[k] = "." /\ \A j \in 1..(k - 1) : line[j] # "."
    IN  SubSeq(line, p + 1, Len(line))

\* s up to its first hyphen or period.
UpToStop(s) ==
    LET stops == {k \in DOMAIN s : s[k] \in {"-", "."}}
    IN  IF stops = {} THEN s
        ELSE SubSeq(s, 1, (CHOOSE k \in stops : \A j \in stops : k <= j) - 1)

\* The candidate as C8 states it: the text after the marker up to the first
\* hyphen or period, parenthetical annotations removed, trimmed.
StatedCandidate(line) ==
    strip(RemoveParens(strip(UpToStop(AfterMarker(line))), 1))

\* The candidate as amended: as stated, and whitespace after a leading known
\* provider name made one space.
AmendedCandidate(line) ==
    strip(NormalizeProvider(RemoveParens(strip(UpToStop(AfterMarker(line))), 1)))

\* Whether the table extracted from response_text counts exactly the
\* candidates Candidate gives for its qualifying lines, those of length at
\* most 1 discarded.
TableCounts(Candidate(_)) ==
    LET lines == SplitLines(response_text, 1, 1)
        t == extracted.all_brands
        counted == {k \in DOMAIN lines :
                       Qualifies(lines[k]) /\ Len(Candidate(lines[k])) > 1}
    IN  /\ {t[j][1] : j \in DOMAIN t} = {Candidate(lines[k]) : k \in counted}
        /\ \A j \in DOMAIN t :
              t[j][2] = Cardinality({k \in counted : Candidate(lines[k]) = t[j][1]})

\* What C8 says of its examples and of the characters of a candidate.
CandidateExamples ==
    /\ response_text = S_TeslaLine => extracted.all_brands = <<<<T_Tesla, 1>>>>
    /\ response_text = S_BMWLine => extracted.all_brands = <<<<T_BMW, 1>>>>
    /\ response_text = S_NoNumeral => extracted.all_brands = <<>>
    /\ \A j \in DOMAIN extracted.all_brands :
          LET c == extracted.all_brands[j][1]
          IN  /\ Len(c) > 1
              /\ \A k \in DOMAIN c : c[k] \notin {"-", "."}

\* C8 as stated: a line counts only if it begins with digits and a period;
\* its candidate is the text after the marker up to the first hyphen or
\* period, parenthetical annotations removed, trimmed, discarded when of
\* length at most 1; no counted candidate contains a hyphen or a period.
C8_StatedCandidates ==
    fn_pc = "extracted" => TableCounts(StatedCandidate) /\ CandidateExamples

\* C8 as amended: the same, the candidate also having the whitespace after a
\* leading known provider name (matched case-insensitively) made one space.
C8_AmendedCandidates ==
    fn_pc = "extracted" => TableCounts(AmendedCandidate) /\ CandidateExamples

\* C8's case: a numbered line whose candidate starts with a provider name,
\* extracted.
C8_ProviderLine ==
    /\ fn_pc = "extracted"
    /\ response_text = S_AWS2
    /\ extracted.all_brands = <<<<T_AWSEC2, 1>>>>

====
